---- MODULE Spec2Model ----
(***************************************************************************)
(* Model of livekit.rtc.room.Room: connect(), disconnect(), the dispatch   *)
(* loop _listen_task() and the event decoder _on_room_event(), together    *)
(* with the collaborators the Room talks to (the FFI event bus, the native *)
(* engine behind it, the secondary broadcast _room_queue and the           *)
(* application's listeners).                                               *)
(***************************************************************************)
EXTENDS Integers, Sequences, FiniteSets, TLC

(***************************************************************************)
(* Bounds of the exploration.                                              *)
(***************************************************************************)
\* number of room events the engine emits in one run
MaxEvents == 3
\* number of disconnect() calls that reach the engine in one run
MaxDisconnects == 1
\* number of connect() calls, and of disconnect() calls that reach the engine,
\* in a run that repeats the calls
MaxCalls == 2
\* number of subscribers of the secondary broadcast
NumSecondary == 1
\* number of listeners the application registers
NumListeners == 2

(***************************************************************************)
(* Values.                                                                 *)
(***************************************************************************)
\* Optional[T]: None is the empty tuple, a value v is <<v>>
None == <<>>

Some(v) == <<v>>

IsNone(o) == o = <<>>

\* the empty dict
EmptyDict == [x \in {} |-> None]

\* handle of the session under study, and of a concurrently active session
RoomHandle == 1

OtherHandle == 2

\* the handle id of the n-th session the engine opens for this Room: a new
\* FfiHandle for every connect(), never the other session's
SessionHandle(n) == RoomHandle + (n - 1) * OtherHandle

LocalIdentity == "me"

RemoteIdentities == {"p1", "p2"}

TrackSids == {"t1", "t2"}

\* room sids the engine assigns; "" is the protobuf default (unset)
RoomSids == {"RM_A", "RM_B"}

CONN_DISCONNECTED == "CONN_DISCONNECTED"

CONN_CONNECTED == "CONN_CONNECTED"

CONN_RECONNECTING == "CONN_RECONNECTING"

KIND_UNKNOWN == "KIND_UNKNOWN"

KIND_AUDIO == "KIND_AUDIO"

KIND_VIDEO == "KIND_VIDEO"

\* attribute maps are sets of <<key, value>> pairs with one pair per key
AttrKeys(m) == {p[1] : p \in m}

\* dict.update(other)
AttrUpdate(m, other) == {p \in m : p[1] \notin AttrKeys(other)} \cup other

(***************************************************************************)
(* FfiEvent.  A protobuf message has every field, unset ones at their      *)
(* default, so every event is a record of one shape.                       *)
(***************************************************************************)
EvDefault ==
    [msg |-> "", async_id |-> 0, error |-> "", handle |-> 0, room_handle |-> 0,
     which |-> "", identity |-> "", sid |-> "", kind |-> "",
     metadata |-> "", attributes |-> {}, changed |-> {}, state |-> "",
     identities |-> <<>>, name |-> "", value |-> "", payload |-> "",
     roster |-> {}, serial |-> 0]

\* the connect callback: error, or the room (handle.id, info.sid, roster); it
\* is no room event, so its room_event.room_handle is the default
ConnectCallback(aid, err, sid, roster) ==
    [EvDefault EXCEPT !.msg = "connect", !.async_id = aid, !.error = err,
                      !.handle = IF err = "" THEN RoomHandle ELSE 0,
                      !.sid = sid, !.roster = roster]

DisconnectCallback(aid) ==
    [EvDefault EXCEPT !.msg = "disconnect", !.async_id = aid]

RoomEvent(h, which) ==
    [EvDefault EXCEPT !.msg = "room_event", !.room_handle = h, !.which = which]

(***************************************************************************)
(* Entity mirrors.                                                         *)
(***************************************************************************)
\* RemoteAudioTrack / RemoteVideoTrack: obj names the instance
NewTrack(obj, kind, sid) == [obj |-> obj, kind |-> kind, sid |-> sid, muted |-> FALSE]

\* RemoteTrackPublication(info): no track, not subscribed
NewPublication(obj, sid) ==
    [obj |-> obj, sid |-> sid, muted |-> FALSE, subscribed |-> FALSE, track |-> None]

\* LocalTrackPublication: it holds the local track and a first-subscription
\* future that is pending
NewLocalPublication(obj, sid) ==
    [obj |-> obj, sid |-> sid, muted |-> FALSE, track |-> Some(NewTrack(obj, KIND_AUDIO, sid)),
     first_subscription |-> None]

\* RemoteParticipant(owned_info) / LocalParticipant(...)
NewParticipant(obj, identity) ==
    [obj |-> obj, identity |-> identity, name |-> "", metadata |-> "",
     attributes |-> {}, track_publications |-> EmptyDict]

\* d[k] = v on a dict
DictSet(d, k, v) == [x \in (DOMAIN d) \cup {k} |-> IF x = k THEN v ELSE d[x]]

\* the dict without key k
DictDel(d, k) == [x \in (DOMAIN d) \ {k} |-> d[x]]

\* Room.__init__
NewRoom ==
    [ffi_handle |-> None,
     info |-> [sid |-> "", metadata |-> ""],
     remote_participants |-> EmptyDict,
     connection_state |-> CONN_DISCONNECTED,
     first_sid_future |-> None,
     local_participant |-> None]

\* Room.isconnected
isconnected(R) ==
    /\ ~IsNone(R.ffi_handle)
    /\ R.connection_state # CONN_DISCONNECTED

\* Room._retrieve_remote_participant: dict.get(identity, None)
RetrieveRemoteParticipant(R, identity) ==
    IF identity \in DOMAIN R.remote_participants
    THEN Some(R.remote_participants[identity])
    ELSE None

\* Room._retrieve_participant
RetrieveParticipant(R, identity) ==
    IF identity # "" /\ identity = R.local_participant[1].identity
    THEN R.local_participant
    ELSE RetrieveRemoteParticipant(R, identity)

\* writes a mutated participant mirror back where the reference points to
StoreParticipant(R, p) ==
    IF p.identity = R.local_participant[1].identity /\ p.obj = R.local_participant[1].obj
    THEN [R EXCEPT !.local_participant = Some(p)]
    ELSE [R EXCEPT !.remote_participants = DictSet(@, p.identity, p)]

(***************************************************************************)
(* The outcome of one branch of _on_room_event: the room after it, the     *)
(* emit() call it made (at most one, always its last statement) and the    *)
(* exception that ended it ("" if none).                                   *)
(***************************************************************************)
Done(R, emits) == [room |-> R, emit |-> emits, raised |-> ""]

Raise(R, exc) == [room |-> R, emit |-> <<>>, raised |-> exc]

Emit(type, args) == <<[type |-> type, args |-> args]>>

\* mutant of CreateRemoteParticipant: no membership test, an existing mirror
\* is replaced by a fresh one
CreateRemoteParticipantReplace(R, obj, identity) ==
    Done([R EXCEPT !.remote_participants =
                       DictSet(@, identity, NewParticipant(obj, identity))],
         <<>>)

\* Room._create_remote_participant: the room after it, or the exception
CreateRemoteParticipant(R, obj, identity) ==
    IF identity \in DOMAIN R.remote_participants
    THEN Raise(R, "participant already exists")
    ELSE Done([R EXCEPT !.remote_participants =
                            DictSet(@, identity, NewParticipant(obj, identity))],
              <<>>)

OnParticipantConnected(R, ev) ==
    LET c == CreateRemoteParticipant(R, ev.serial, ev.identity) IN
    IF c.raised # "" THEN c
    ELSE Done(c.room, Emit("participant_connected",
                           <<c.room.remote_participants[ev.identity]>>))

\* mutant of OnTrackUnpublished: the publication is looked up, not popped
OnTrackUnpublishedKeep(R, ev) ==
    IF ~(/\ ev.identity \in DOMAIN R.remote_participants
         /\ ev.sid \in DOMAIN R.remote_participants[ev.identity].track_publications)
    THEN Raise(R, "KeyError")
    ELSE LET rp == R.remote_participants[ev.identity]
         IN  Done(R, Emit("track_unpublished", <<rp.track_publications[ev.sid], rp>>))

\* mutant of OnParticipantDisconnected: get() instead of pop(), the mirror stays
OnParticipantDisconnectedKeep(R, ev) ==
    IF ev.identity \notin DOMAIN R.remote_participants
    THEN Raise(R, "KeyError")
    ELSE Done(R, Emit("participant_disconnected", <<R.remote_participants[ev.identity]>>))

OnParticipantDisconnected(R, ev) ==
    IF ev.identity \notin DOMAIN R.remote_participants
    THEN Raise(R, "KeyError")
    ELSE Done([R EXCEPT !.remote_participants = DictDel(@, ev.identity)],
              Emit("participant_disconnected", <<R.remote_participants[ev.identity]>>))

\* the publications of the local participant
LocalPublications(R) == R.local_participant[1].track_publications

OnLocalTrackPublished(R, ev) ==
    IF ev.sid \notin DOMAIN LocalPublications(R)
    THEN Raise(R, "KeyError")
    ELSE LET lpublication == LocalPublications(R)[ev.sid]
         IN  Done(R, Emit("local_track_published", <<lpublication, lpublication.track>>))

OnLocalTrackUnpublished(R, ev) ==
    IF ev.sid \notin DOMAIN LocalPublications(R)
    THEN Raise(R, "KeyError")
    ELSE Done(R, Emit("local_track_unpublished", <<LocalPublications(R)[ev.sid]>>))

\* _first_subscription.set_result(None) raises InvalidStateError on a future
\* that already has its result
OnLocalTrackSubscribed(R, ev) ==
    IF ev.sid \notin DOMAIN LocalPublications(R)
    THEN Raise(R, "KeyError")
    ELSE LET lpublication == LocalPublications(R)[ev.sid] IN
         IF ~IsNone(lpublication.first_subscription)
         THEN Raise(R, "InvalidStateError")
         ELSE Done([R EXCEPT !.local_participant[1].track_publications[ev.sid]
                                 .first_subscription = Some(None)],
                   Emit("local_track_subscribed", <<lpublication.track>>))

OnTrackPublished(R, ev) ==
    IF ev.identity \notin DOMAIN R.remote_participants
    THEN Raise(R, "KeyError")
    ELSE LET rpublication == NewPublication(ev.serial, ev.sid)
             rp == [R.remote_participants[ev.identity] EXCEPT
                       !.track_publications = DictSet(@, ev.sid, rpublication)]
         IN  Done([R EXCEPT !.remote_participants[ev.identity] = rp],
                  Emit("track_published", <<rpublication, rp>>))

OnTrackUnpublished(R, ev) ==
    IF ev.identity \notin DOMAIN R.remote_participants
    THEN Raise(R, "KeyError")
    ELSE LET old == R.remote_participants[ev.identity] IN
         IF ev.sid \notin DOMAIN old.track_publications
         THEN Raise(R, "KeyError")
         ELSE LET rp == [old EXCEPT !.track_publications = DictDel(@, ev.sid)]
              IN  Done([R EXCEPT !.remote_participants[ev.identity] = rp],
                       Emit("track_unpublished", <<old.track_publications[ev.sid], rp>>))

OnTrackSubscribed(R, ev) ==
    IF ev.identity \notin DOMAIN R.remote_participants
    THEN Raise(R, "KeyError")
    ELSE LET old == R.remote_participants[ev.identity] IN
         IF ev.sid \notin DOMAIN old.track_publications
         THEN Raise(R, "KeyError")
         ELSE LET marked == [old.track_publications[ev.sid] EXCEPT !.subscribed = TRUE]
                  track == NewTrack(ev.serial, ev.kind, ev.sid)
                  attached == [marked EXCEPT !.track = Some(track)]
              IN  IF ev.kind \in {KIND_VIDEO, KIND_AUDIO}
                  THEN LET rp == [old EXCEPT !.track_publications[ev.sid] = attached]
                       IN  Done([R EXCEPT !.remote_participants[ev.identity] = rp],
                                Emit("track_subscribed", <<track, attached, rp>>))
                  ELSE Done([R EXCEPT !.remote_participants[ev.identity]
                                         .track_publications[ev.sid] = marked],
                            <<>>)

OnTrackUnsubscribed(R, ev) ==
    IF ev.identity \notin DOMAIN R.remote_participants
    THEN Raise(R, "KeyError")
    ELSE LET old == R.remote_participants[ev.identity] IN
         IF ev.sid \notin DOMAIN old.track_publications
         THEN Raise(R, "KeyError")
         ELSE LET track == old.track_publications[ev.sid].track
                  rpublication == [old.track_publications[ev.sid] EXCEPT
                                      !.track = None, !.subscribed = FALSE]
                  rp == [old EXCEPT !.track_publications[ev.sid] = rpublication]
              IN  Done([R EXCEPT !.remote_participants[ev.identity] = rp],
                       Emit("track_unsubscribed", <<track, rpublication, rp>>))

\* the track_muted and track_unmuted branches; muted is the flag they write
OnTrackMuteChange(R, ev, type, muted) ==
    LET participant == RetrieveParticipant(R, ev.identity) IN
    IF IsNone(participant)
    THEN Raise(R, "AssertionError")
    ELSE IF ev.sid \notin DOMAIN participant[1].track_publications
    THEN Raise(R, "KeyError")
    ELSE LET old == participant[1].track_publications[ev.sid]
             flagged == [old EXCEPT !.muted = muted]
             publication ==
                 IF ~IsNone(old.track)
                 THEN [flagged EXCEPT !.track = Some([old.track[1] EXCEPT !.muted = muted])]
                 ELSE flagged
             p == [participant[1] EXCEPT !.track_publications[ev.sid] = publication]
         IN  Done(StoreParticipant(R, p), Emit(type, <<p, publication>>))

\* mutant of OnTrackMuted: the event toggles the flag instead of setting it
OnTrackMutedToggle(R, ev) ==
    LET participant == RetrieveParticipant(R, ev.identity) IN
    IF IsNone(participant) \/ ev.sid \notin DOMAIN participant[1].track_publications
    THEN OnTrackMuteChange(R, ev, "track_muted", TRUE)
    ELSE OnTrackMuteChange(R, ev, "track_muted",
                           ~participant[1].track_publications[ev.sid].muted)

OnTrackMuted(R, ev) == OnTrackMuteChange(R, ev, "track_muted", TRUE)

OnTrackUnmuted(R, ev) == OnTrackMuteChange(R, ev, "track_unmuted", FALSE)

\* the loop over participant_identities ends at the first identity whose
\* lookup returns None: the assert raises before the emit
OnActiveSpeakersChanged(R, ev) ==
    LET ids == ev.identities IN
    IF \E i \in 1..Len(ids) : IsNone(RetrieveParticipant(R, ids[i]))
    THEN Raise(R, "AssertionError")
    ELSE LET speakers == [i \in 1..Len(ids) |-> RetrieveParticipant(R, ids[i])[1]]
         IN  Done(R, Emit("active_speakers_changed", <<speakers>>))

OnRoomMetadataChanged(R, ev) ==
    LET old_metadata == R.info.metadata
        R2 == [R EXCEPT !.info.metadata = ev.metadata]
    IN  Done(R2, Emit("room_metadata_changed", <<old_metadata, R2.info.metadata>>))

\* remote_participants[identity] raises KeyError on an unknown identity
OnTrackSubscriptionFailed(R, ev) ==
    IF ev.identity \notin DOMAIN R.remote_participants
    THEN Raise(R, "KeyError")
    ELSE Done(R, Emit("track_subscription_failed",
                      <<R.remote_participants[ev.identity], ev.sid, ev.payload>>))

OnParticipantMetadataChanged(R, ev) ==
    LET participant == RetrieveParticipant(R, ev.identity) IN
    IF IsNone(participant)
    THEN Raise(R, "AssertionError")
    ELSE LET old_metadata == participant[1].metadata
             p == [participant[1] EXCEPT !.metadata = ev.metadata]
         IN  Done(StoreParticipant(R, p),
                  Emit("participant_metadata_changed", <<p, old_metadata, p.metadata>>))

OnParticipantNameChanged(R, ev) ==
    LET participant == RetrieveParticipant(R, ev.identity) IN
    IF IsNone(participant)
    THEN Raise(R, "AssertionError")
    ELSE LET old_name == participant[1].name
             p == [participant[1] EXCEPT !.name = ev.name]
         IN  Done(StoreParticipant(R, p),
                  Emit("participant_name_changed", <<p, old_name, p.name>>))

\* mutant of OnConnectionQualityChanged: the lookup is asserted
OnConnectionQualityChangedStrict(R, ev) ==
    IF IsNone(RetrieveParticipant(R, ev.identity))
    THEN Raise(R, "AssertionError")
    ELSE Done(R, Emit("connection_quality_changed",
                      <<RetrieveParticipant(R, ev.identity), ev.payload>>))

\* the participant is passed as _retrieve_participant returned it, None included
OnConnectionQualityChanged(R, ev) ==
    Done(R, Emit("connection_quality_changed",
                 <<RetrieveParticipant(R, ev.identity), ev.payload>>))

\* part, and pub = part.track_publications.get(track_sid) if part
OnTranscriptionReceived(R, ev) ==
    LET part == RetrieveParticipant(R, ev.identity)
        pub == IF ~IsNone(part) /\ ev.sid \in DOMAIN part[1].track_publications
               THEN Some(part[1].track_publications[ev.sid])
               ELSE None
    IN  Done(R, Emit("transcription_received", <<ev.payload, part, pub>>))

\* the user and sip_dtmf values look the sender up among the remote participants
OnDataPacketReceived(R, ev) ==
    LET rparticipant == RetrieveRemoteParticipant(R, ev.identity) IN
    CASE ev.value = "user" ->
           Done(R, Emit("data_received",
                        <<[data |-> ev.payload, participant |-> rparticipant]>>))
      [] ev.value = "sip_dtmf" ->
           Done(R, Emit("sip_dtmf_received",
                        <<[code |-> ev.payload, participant |-> rparticipant]>>))
      [] OTHER -> Done(R, <<>>)

OnE2eeStateChanged(R, ev) ==
    Done(R, Emit("e2ee_state_changed", <<RetrieveParticipant(R, ev.identity), ev.payload>>))

\* asyncio.Future.set_result on a future that is done raises InvalidStateError
OnRoomSidChanged(R, ev) ==
    IF R.info.sid = ""
    THEN IF ~IsNone(R.first_sid_future)
         THEN Raise(R, "InvalidStateError")
         ELSE Done([R EXCEPT !.first_sid_future = Some(ev.sid), !.info.sid = ev.sid], <<>>)
    ELSE Done([R EXCEPT !.info.sid = ev.sid], <<>>)

\* mutant of OnParticipantAttributesChanged: update() without the clear()
OnParticipantAttributesMerged(R, ev) ==
    LET participant == RetrieveParticipant(R, ev.identity) IN
    IF IsNone(participant)
    THEN Raise(R, "AssertionError")
    ELSE LET p == [participant[1] EXCEPT !.attributes = AttrUpdate(@, ev.attributes)]
         IN  Done(StoreParticipant(R, p),
                  Emit("participant_attributes_changed", <<ev.changed, p>>))

OnParticipantAttributesChanged(R, ev) ==
    LET attributes == ev.attributes
        changed_attributes == ev.changed
        participant == RetrieveParticipant(R, ev.identity)
    IN  IF IsNone(participant)
        THEN Raise(R, "AssertionError")
        ELSE LET cleared == [participant[1] EXCEPT !.attributes = {}]
                 p == [cleared EXCEPT !.attributes = AttrUpdate(@, attributes)]
             IN  Done(StoreParticipant(R, p),
                      Emit("participant_attributes_changed", <<changed_attributes, p>>))

OnConnectionStateChanged(R, ev) ==
    Done([R EXCEPT !.connection_state = ev.state],
         Emit("connection_state_changed", <<ev.state>>))

\* Room._on_room_event: the if/elif chain over WhichOneof("message")
OnRoomEvent(R, ev) ==
    CASE ev.which = "participant_connected" -> OnParticipantConnected(R, ev)
      [] ev.which = "participant_disconnected" -> OnParticipantDisconnected(R, ev)
      [] ev.which = "local_track_published" -> OnLocalTrackPublished(R, ev)
      [] ev.which = "local_track_unpublished" -> OnLocalTrackUnpublished(R, ev)
      [] ev.which = "local_track_subscribed" -> OnLocalTrackSubscribed(R, ev)
      [] ev.which = "track_published" -> OnTrackPublished(R, ev)
      [] ev.which = "track_unpublished" -> OnTrackUnpublished(R, ev)
      [] ev.which = "track_subscribed" -> OnTrackSubscribed(R, ev)
      [] ev.which = "track_unsubscribed" -> OnTrackUnsubscribed(R, ev)
      [] ev.which = "track_muted" -> OnTrackMuted(R, ev)
      [] ev.which = "track_unmuted" -> OnTrackUnmuted(R, ev)
      [] ev.which = "track_subscription_failed" -> OnTrackSubscriptionFailed(R, ev)
      [] ev.which = "active_speakers_changed" -> OnActiveSpeakersChanged(R, ev)
      [] ev.which = "participant_metadata_changed" -> OnParticipantMetadataChanged(R, ev)
      [] ev.which = "participant_name_changed" -> OnParticipantNameChanged(R, ev)
      [] ev.which = "connection_quality_changed" -> OnConnectionQualityChanged(R, ev)
      [] ev.which = "transcription_received" -> OnTranscriptionReceived(R, ev)
      [] ev.which = "data_packet_received" -> OnDataPacketReceived(R, ev)
      [] ev.which = "e2ee_state_changed" -> OnE2eeStateChanged(R, ev)
      [] ev.which = "room_metadata_changed" -> OnRoomMetadataChanged(R, ev)
      [] ev.which = "room_sid_changed" -> OnRoomSidChanged(R, ev)
      [] ev.which = "participant_attributes_changed" -> OnParticipantAttributesChanged(R, ev)
      [] ev.which = "connection_state_changed" -> OnConnectionStateChanged(R, ev)
      [] OTHER -> Done(R, <<>>)

(***************************************************************************)
(* What the engine can emit.  The event stream is explored one family of   *)
(* event kinds at a time.                                                  *)
(***************************************************************************)
ParticipantEv(which, identity) ==
    [RoomEvent(RoomHandle, which) EXCEPT !.identity = identity]

TrackEv(which, identity, sid, kind) ==
    [RoomEvent(RoomHandle, which) EXCEPT !.identity = identity, !.sid = sid, !.kind = kind]

AttributesEv(identity, full, changed) ==
    [RoomEvent(RoomHandle, "participant_attributes_changed") EXCEPT
        !.identity = identity, !.attributes = full, !.changed = changed]

StateEv(state) ==
    [RoomEvent(RoomHandle, "connection_state_changed") EXCEPT !.state = state]

\* an event of kind which that names a participant and carries a payload
LookupEv(which, identity, value) ==
    [RoomEvent(RoomHandle, which) EXCEPT
        !.identity = identity, !.sid = "t1", !.value = value, !.payload = "x",
        !.metadata = "m1", !.name = "n1"]

SpeakersEv(ids) ==
    [RoomEvent(RoomHandle, "active_speakers_changed") EXCEPT !.identities = ids]

SidEv(sid) == [RoomEvent(RoomHandle, "room_sid_changed") EXCEPT !.sid = sid]

\* the families explored with the whole life cycle of the session
LifecycleFamilies == {"lifecycle"}

\* the family explored with repeated connect() and disconnect() calls
CallFamilies == {"calls"}

\* calls of connect(), and calls of disconnect() reaching the engine, per run
ConnectCalls(f) == IF f \in CallFamilies THEN MaxCalls ELSE 1

DisconnectCalls(f) == IF f \in CallFamilies THEN MaxCalls ELSE MaxDisconnects

\* the families explored event by event on a session that stays connected
EventFamilies ==
    {"participants", "tracks", "room", "attributes", "speakers", "lookup", "local"}

FamilyEvents(f) ==
    CASE f \in {"lifecycle", "calls"} ->
           {ParticipantEv("participant_connected", "p1"), StateEv(CONN_DISCONNECTED)}
      [] f = "participants" ->
           {ParticipantEv(w, i) :
              w \in {"participant_connected", "participant_disconnected"},
              i \in RemoteIdentities}
      [] f = "tracks" ->
           {TrackEv("track_subscribed", "p1", "t1", k) : k \in {KIND_AUDIO, KIND_VIDEO, KIND_UNKNOWN}}
           \cup {TrackEv(w, "p1", "t1", "") :
                   w \in {"track_unsubscribed", "track_muted", "track_unmuted",
                          "track_published", "track_unpublished"}}
           \cup {TrackEv("track_published", "p1", "t2", "")}
      [] f = "room" ->
           {SidEv(s) : s \in RoomSids}
           \cup {[RoomEvent(RoomHandle, "room_metadata_changed") EXCEPT !.metadata = "m1"]}
           \cup {StateEv(c) : c \in {CONN_DISCONNECTED, CONN_CONNECTED, CONN_RECONNECTING}}
      [] f = "local" ->
           {TrackEv(w, LocalIdentity, "t1", "") :
              w \in {"local_track_published", "local_track_unpublished",
                     "local_track_subscribed"}}
           \cup {TrackEv("local_track_subscribed", LocalIdentity, "t2", "")}
      [] f = "lookup" ->
           {LookupEv(w, i, "") :
              w \in {"connection_quality_changed", "e2ee_state_changed",
                     "transcription_received", "track_subscription_failed",
                     "participant_metadata_changed", "participant_name_changed"},
              i \in RemoteIdentities}
           \cup {LookupEv("data_packet_received", i, v) :
                   i \in RemoteIdentities, v \in {"user", "sip_dtmf"}}
      [] f = "speakers" ->
           {SpeakersEv(ids) :
              ids \in {<<>>, <<"p1">>, <<LocalIdentity, "p1">>, <<"p1", "p2">>,
                       <<"p2", LocalIdentity, "p1">>}}
           \cup {ParticipantEv("participant_connected", "p2")}
      [] f = "attributes" ->
           {AttributesEv(i, full, changed) :
              i \in {"p1", "p2", LocalIdentity},
              full \in { {<<"a", "1">>, <<"b", "2">>}, {<<"a", "1">>}, {<<"b", "3">>} },
              changed \in { {<<"b", "2">>}, {} }}

\* events of the concurrently active session: one of its mirror events, its eos
OtherSessionEvents ==
    {[RoomEvent(OtherHandle, "participant_connected") EXCEPT !.identity = "p1"],
     RoomEvent(OtherHandle, "eos")}

\* the initial roster of a connect callback: <<identity, publication sids>>
Rosters == { {}, {<<"p1", {"t1"}>>} }

\* the publication sids the roster lists, per identity
RosterPublications(roster) ==
    [identity \in {pt[1] : pt \in roster} |->
        (CHOOSE pt \in roster : pt[1] = identity)[2]]

\* the room sid of a connect callback: not yet assigned, or assigned
CallbackSids(f) == IF f = "room" THEN {"", "RM_A"} ELSE {""}

ConnectErrors == {"invalid token", "room full"}

(***************************************************************************)
(* State.                                                                  *)
(***************************************************************************)
VARIABLES
    family,      \* the family of room events the engine emits in this run
    room,        \* the Room object's fields
    app,         \* the application's calls: connect(), disconnect(), await sid
    subscribed,  \* FfiClient.instance.queue: the subscriptions ("ffi", "eph")
    ffi_queue,   \* self._ffi_queue, the persistent subscription
    eph_queue,   \* the ephemeral subscription of connect() or disconnect()
    task_pc,     \* self._task: "none", "get", "join", "done"
    pending,     \* self._room_queue: unacknowledged items per secondary subscriber
    engine,      \* the native engine behind the FFI boundary
    last,        \* the loop's last turn: the event taken and what came of it
    ghost        \* history kept for the properties; the program does not read it

vars ==
    <<family, room, app, subscribed, ffi_queue, eph_queue, task_pc, pending,
      engine, last, ghost>>

Secondaries == 1..NumSecondary

Listeners == 1..NumListeners

NoTurn ==
    [event |-> EvDefault, applied |-> FALSE, emit |-> None, raised |-> "",
     republished |-> FALSE]

InitCommon ==
    /\ room = NewRoom
    /\ app = [pc |-> "idle", async_id |-> 0, connect_called |-> FALSE,
              connects |-> 0, orphans |-> 0, disconnects |-> 0, last |-> "", error |-> "", observed |-> 0,
              reader |-> "none", sid_read |-> ""]
    /\ subscribed = {}
    /\ ffi_queue = <<>>
    /\ eph_queue = <<>>
    /\ task_pc = "none"
    /\ engine = [phase |-> "idle", connect_async |-> 0, disconnect_async |-> 0,
                 next_async |-> 1, serial |-> 0, nevents |-> 0, eos |-> FALSE,
                 error |-> "", sessions |-> 0, handle |-> 0]
    /\ last = NoTurn
    /\ ghost = [errors |-> 0, replay |-> {}, first_sid |-> "", prev |-> EvDefault,
                pubs |-> [x \in {} |-> {}]]

Init ==
    /\ family \in LifecycleFamilies
    /\ \E S \in SUBSET Secondaries : pending = [s \in S |-> 0]
    /\ InitCommon

InitEvents ==
    /\ family \in EventFamilies
    /\ pending = [s \in {} |-> 0]
    /\ InitCommon

InitCalls ==
    /\ family \in CallFamilies
    /\ pending = [s \in {} |-> 0]
    /\ InitCommon

(***************************************************************************)
(* The event bus (FfiClient.instance.queue) and its correlation wait.      *)
(***************************************************************************)
\* put(ev): every queue subscribed at that moment receives the event
Broadcast(ev) ==
    /\ ffi_queue' = IF "ffi" \in subscribed THEN Append(ffi_queue, ev) ELSE ffi_queue
    /\ eph_queue' = IF "eph" \in subscribed THEN Append(eph_queue, ev) ELSE eph_queue

\* e.connect.async_id and e.disconnect.async_id: 0 unless e is that callback
ConnectAsyncId(e) == IF e.msg = "connect" THEN e.async_id ELSE 0

DisconnectAsyncId(e) == IF e.msg = "disconnect" THEN e.async_id ELSE 0

\* mutant of ConnectMatches: the wait returns on any event
ConnectMatchesAny(q, aid) == 1..Len(q)

\* wait_for(pred) on a queue: the positions of the events that satisfy pred
ConnectMatches(q, aid) == {i \in 1..Len(q) : ConnectAsyncId(q[i]) = aid}

DisconnectMatches(q, aid) == {i \in 1..Len(q) : DisconnectAsyncId(q[i]) = aid}

\* the first of a non-empty set of positions
First(S) == CHOOSE i \in S : \A j \in S : i <= j

(***************************************************************************)
(* connect()                                                               *)
(***************************************************************************)
\* self._ffi_queue = FfiClient.instance.queue.subscribe(self._loop)
ConnectSubscribe ==
    /\ app.pc = "idle"
    /\ app.connects < ConnectCalls(family)
    /\ app' = [app EXCEPT !.pc = "c_sub", !.connect_called = TRUE,
                          !.connects = @ + 1]
    /\ ffi_queue' = <<>>
    /\ subscribed' = subscribed \cup {"ffi"}
    /\ UNCHANGED <<family, room, eph_queue, task_pc, pending, engine, last, ghost>>

\* queue = FfiClient.instance.queue.subscribe()
ConnectSubscribeEphemeral ==
    /\ app.pc = "c_sub"
    /\ app' = [app EXCEPT !.pc = "c_eph"]
    /\ eph_queue' = <<>>
    /\ subscribed' = subscribed \cup {"eph"}
    /\ UNCHANGED <<family, room, ffi_queue, task_pc, pending, engine, last, ghost>>

\* resp = FfiClient.instance.request(req): the engine has the request
ConnectRequest ==
    /\ app.pc = "c_eph"
    /\ app' = [app EXCEPT !.pc = "c_wait", !.async_id = engine.next_async]
    /\ engine' = [engine EXCEPT !.phase = "requested",
                                !.connect_async = engine.next_async,
                                !.next_async = @ + 1]
    /\ UNCHANGED <<family, room, subscribed, ffi_queue, eph_queue, task_pc,
                   pending, last, ghost>>

RECURSIVE ReplayRoster(_, _, _)
\* for pt in cb.connect.participants: create the mirror and its publications
ReplayRoster(R, roster, obj) ==
    IF roster = {} THEN R
    ELSE LET pt == CHOOSE x \in roster : TRUE
             c == CreateRemoteParticipant(R, obj, pt[1])
             pubs == [sid \in pt[2] |-> NewPublication(obj, sid)]
             R2 == [c.room EXCEPT !.remote_participants[pt[1]].track_publications = pubs]
         IN  IF c.raised # "" THEN R ELSE ReplayRoster(R2, roster \ {pt}, obj)

\* _create_remote_participant raises in the loop over the roster: the Room of
\* an earlier connect() already mirrors one of the listed identities
ReplayRaises(R, roster) == \E pt \in roster : pt[1] \in DOMAIN R.remote_participants

\* mutant of ConnectAdopt: the initial roster is not replayed
ConnectAdoptNoRoster(R, cb) ==
    [R EXCEPT !.ffi_handle = Some(cb.handle),
              !.info = [sid |-> cb.sid, metadata |-> cb.metadata],
              !.connection_state = CONN_CONNECTED,
              !.local_participant = Some(NewParticipant(cb.serial, LocalIdentity))]

\* connect() after a callback without error: lines 205 to 222
ConnectAdopt(R, cb) ==
    LET R1 == [R EXCEPT !.ffi_handle = Some(cb.handle),
                        !.info = [sid |-> cb.sid, metadata |-> cb.metadata],
                        !.connection_state = CONN_CONNECTED,
                        !.local_participant = Some(NewParticipant(cb.serial, LocalIdentity))]
    IN  ReplayRoster(R1, cb.roster, cb.serial)

\* mutant of ConnectUnsubscribe: the error branch keeps the persistent subscription
ConnectUnsubscribeLeak(subs, cb) == subs \ {"eph"}

\* the subscriptions left after the callback cb: the finally, and the error branch
ConnectUnsubscribe(subs, cb) ==
    IF cb.error # "" THEN (subs \ {"eph"}) \ {"ffi"} ELSE subs \ {"eph"}

\* cb = await queue.wait_for(...) returns; the rest of connect() runs
ConnectWaitFor ==
    /\ app.pc = "c_wait"
    /\ ConnectMatches(eph_queue, app.async_id) # {}
    /\ LET cb == eph_queue[First(ConnectMatches(eph_queue, app.async_id))] IN
       /\ subscribed' = ConnectUnsubscribe(subscribed, cb)
       /\ IF cb.error # ""
          THEN /\ app' = [app EXCEPT !.pc = "idle", !.last = "ConnectError",
                                     !.error = cb.error,
                                     !.observed = ConnectAsyncId(cb)]
               /\ UNCHANGED <<room, task_pc, ghost>>
          ELSE IF ReplayRaises(room, cb.roster)
          THEN /\ app' = [app EXCEPT !.pc = "idle", !.last = "Exception",
                                     !.observed = ConnectAsyncId(cb)]
               /\ room' = ConnectAdopt(room, cb)
               /\ UNCHANGED <<task_pc, ghost>>
          ELSE /\ app' = [app EXCEPT !.pc = "idle", !.last = "connected",
                                     !.observed = ConnectAsyncId(cb),
                                     !.orphans = IF task_pc \in {"get", "join"}
                                                 THEN @ + 1 ELSE @]
               /\ room' = ConnectAdopt(room, cb)
               /\ task_pc' = "get"
               /\ ghost' = [ghost EXCEPT !.replay = {pt[1] : pt \in cb.roster},
                                         !.pubs = RosterPublications(cb.roster)]
    /\ eph_queue' = <<>>
    /\ UNCHANGED <<family, ffi_queue, pending, engine, last>>

(***************************************************************************)
(* The sid property: a reader task of the application awaits room.sid.     *)
(* It is explored on the room family of events.                            *)
(***************************************************************************)
\* if self._info.sid: return self._info.sid; else the reader awaits the future
SidRead ==
    /\ family = "room"
    /\ app.reader = "none"
    /\ app' = IF room.info.sid # ""
              THEN [app EXCEPT !.reader = "returned", !.sid_read = room.info.sid]
              ELSE [app EXCEPT !.reader = "blocked"]
    /\ UNCHANGED <<family, room, subscribed, ffi_queue, eph_queue, task_pc, pending,
                   engine, last, ghost>>

\* return await self._first_sid_future: the future has a result
SidResume ==
    /\ app.reader = "blocked"
    /\ ~IsNone(room.first_sid_future)
    /\ app' = [app EXCEPT !.reader = "returned", !.sid_read = room.first_sid_future[1]]
    /\ UNCHANGED <<family, room, subscribed, ffi_queue, eph_queue, task_pc, pending,
                   engine, last, ghost>>

(***************************************************************************)
(* The application publishes a local track: publish_track() returns and    *)
(* the local participant holds the new publication.  It is explored on the *)
(* local family of events.                                                 *)
(***************************************************************************)
PublishTrack ==
    /\ family = "local"
    /\ ~IsNone(room.local_participant)
    /\ \E sid \in {"t1"} :
         /\ sid \notin DOMAIN LocalPublications(room)
         /\ room' = [room EXCEPT !.local_participant[1].track_publications =
                                    DictSet(@, sid, NewLocalPublication(engine.serial, sid))]
    /\ UNCHANGED <<family, app, subscribed, ffi_queue, eph_queue, task_pc, pending,
                   engine, last, ghost>>

(***************************************************************************)
(* disconnect()                                                            *)
(***************************************************************************)
\* if not self.isconnected(): return
DisconnectNoop ==
    /\ app.pc = "idle"
    /\ ~isconnected(room)
    /\ app' = [app EXCEPT !.last = "disconnect_noop"]
    /\ UNCHANGED <<family, room, subscribed, ffi_queue, eph_queue, task_pc,
                   pending, engine, last, ghost>>

\* queue = FfiClient.instance.queue.subscribe()
DisconnectSubscribe ==
    /\ app.pc = "idle"
    /\ isconnected(room)
    /\ app.disconnects < DisconnectCalls(family)
    /\ app' = [app EXCEPT !.pc = "d_sub", !.last = "disconnecting",
                          !.disconnects = @ + 1]
    /\ eph_queue' = <<>>
    /\ subscribed' = subscribed \cup {"eph"}
    /\ UNCHANGED <<family, room, ffi_queue, task_pc, pending, engine, last, ghost>>

\* resp = FfiClient.instance.request(req)
DisconnectRequest ==
    /\ app.pc = "d_sub"
    /\ app' = [app EXCEPT !.pc = "d_wait", !.async_id = engine.next_async]
    /\ engine' = [engine EXCEPT !.disconnect_async = engine.next_async,
                                !.next_async = @ + 1]
    /\ UNCHANGED <<family, room, subscribed, ffi_queue, eph_queue, task_pc,
                   pending, last, ghost>>

\* mutant of DisconnectWaitFor: the wait gives up without the callback
DisconnectWaitTimeout ==
    /\ app.pc = "d_wait"
    /\ app' = [app EXCEPT !.pc = "d_task"]
    /\ subscribed' = subscribed \ {"eph"}
    /\ eph_queue' = <<>>
    /\ UNCHANGED <<family, room, ffi_queue, task_pc, pending, engine, last, ghost>>

\* await queue.wait_for(...) returns; finally: unsubscribe(queue)
DisconnectWaitFor ==
    /\ app.pc = "d_wait"
    /\ DisconnectMatches(eph_queue, app.async_id) # {}
    /\ app' = [app EXCEPT !.pc = "d_task",
                          !.observed = DisconnectAsyncId(
                              eph_queue[First(DisconnectMatches(eph_queue, app.async_id))])]
    /\ subscribed' = subscribed \ {"eph"}
    /\ eph_queue' = <<>>
    /\ UNCHANGED <<family, room, ffi_queue, task_pc, pending, engine, last, ghost>>

\* mutant of DisconnectAwaitTask: disconnect() returns without awaiting the task
DisconnectNoAwait ==
    /\ app.pc = "d_task"
    /\ app' = [app EXCEPT !.pc = "idle", !.last = "disconnected"]
    /\ subscribed' = subscribed \ {"ffi"}
    /\ UNCHANGED <<family, room, ffi_queue, eph_queue, task_pc, pending, engine,
                   last, ghost>>

\* await self._task returns; unsubscribe(self._ffi_queue); disconnect() returns
DisconnectAwaitTask ==
    /\ app.pc = "d_task"
    /\ task_pc = "done"
    /\ app' = [app EXCEPT !.pc = "idle", !.last = "disconnected"]
    /\ subscribed' = subscribed \ {"ffi"}
    /\ UNCHANGED <<family, room, ffi_queue, eph_queue, task_pc, pending, engine, last, ghost>>

(***************************************************************************)
(* The dispatch loop, _listen_task().                                      *)
(***************************************************************************)
\* mutant of NextEvent: the loop takes the newest event instead of the oldest
NextEventNewest(q) == q[Len(q)]

\* await self._ffi_queue.get(): the event the loop takes from the queue q
NextEvent(q) == Head(q)

\* EventEmitter.emit(type, *args): the listeners are called in registration
\* order; listener k raising (k = 0: none raises) ends the call, so `notified'
\* listeners were called
EmitCall(call, k) ==
    [type |-> call.type, args |-> call.args,
     notified |-> IF k = 0 THEN NumListeners ELSE k]

\* self._room_queue.put_nowait(event): one more item for every subscriber
RoomQueuePut(p) == [s \in DOMAIN p |-> p[s] + 1]

\* mutant of AfterTurn: the loop breaks on the end-of-stream of any session
AfterTurnAnyEos(R, ev, raised) == IF ev.which = "eos" THEN "done" ELSE "join"

\* mutant of AfterTurn: the loop does not break on the end-of-stream
AfterTurnNoBreak(R, ev, raised) == "join"

\* mutant of AfterTurn: no try/except, so an exception ends the task
AfterTurnNoCatch(R, ev, raised) ==
    IF (ev.room_handle = R.ffi_handle[1] /\ ev.which = "eos") \/ raised # ""
    THEN "done" ELSE "join"

\* where the loop is after its turn on ev, raised being the exception that
\* _on_room_event ended with: it breaks on this session's eos alone
AfterTurn(R, ev, raised) ==
    IF ev.room_handle = R.ffi_handle[1] /\ ev.which = "eos" THEN "done" ELSE "join"

\* what replaying ev does to a set of identities
ReplayStep(S, ev) ==
    CASE ev.which = "participant_connected" -> S \cup {ev.identity}
      [] ev.which = "participant_disconnected" -> S \ {ev.identity}
      [] OTHER -> S

\* what replaying ev does to the publication sids of each participant
ReplayPublications(P, ev) ==
    CASE ev.which = "participant_connected" /\ ev.identity \notin DOMAIN P ->
           DictSet(P, ev.identity, {})
      [] ev.which = "participant_disconnected" -> DictDel(P, ev.identity)
      [] ev.which = "track_published" /\ ev.identity \in DOMAIN P ->
           [P EXCEPT ![ev.identity] = @ \cup {ev.sid}]
      [] ev.which = "track_unpublished" /\ ev.identity \in DOMAIN P ->
           [P EXCEPT ![ev.identity] = @ \ {ev.sid}]
      [] OTHER -> P

\* the history after the loop's turn on ev
GhostStep(g, ev, raised) ==
    [errors |-> IF raised # "" THEN g.errors + 1 ELSE g.errors,
     replay |-> ReplayStep(g.replay, ev),
     first_sid |-> IF ev.which = "room_sid_changed" /\ g.first_sid = ""
                   THEN ev.sid ELSE g.first_sid,
     prev |-> g.prev,
     pubs |-> ReplayPublications(g.pubs, ev)]

\* try: self._on_room_event(...) except Exception: logging.exception(...)
\* with listener k raising in the emit() call, if the branch makes one
ApplyEvent(R, ev, k) ==
    LET r == OnRoomEvent(R, ev) IN
    [room |-> r.room,
     emit |-> IF r.emit = <<>> THEN None ELSE Some(EmitCall(r.emit[1], k)),
     raised |-> IF r.emit # <<>> /\ k # 0 THEN "listener error" ELSE r.raised]

\* mutant of ListenGet: the put_nowait() is inside the handle test, so an event
\* of another session is dropped instead of republished
ListenGetSkipRepublish ==
    /\ task_pc = "get"
    /\ ffi_queue # <<>>
    /\ LET ev == NextEvent(ffi_queue) IN
       /\ ffi_queue' = Tail(ffi_queue)
       /\ IF ev.room_handle = room.ffi_handle[1]
          THEN IF ev.which = "eos"
               THEN /\ task_pc' = AfterTurn(room, ev, "")
                    /\ last' = [NoTurn EXCEPT !.event = ev]
                    /\ UNCHANGED <<room, pending, ghost>>
               ELSE \E k \in 0..NumListeners :
                    LET a == ApplyEvent(room, ev, k) IN
                    /\ k # 0 => OnRoomEvent(room, ev).emit # <<>>
                    /\ room' = a.room
                    /\ task_pc' = AfterTurn(room, ev, a.raised)
                    /\ pending' = RoomQueuePut(pending)
                    /\ last' = [event |-> ev, applied |-> TRUE, emit |-> a.emit,
                                raised |-> a.raised, republished |-> TRUE]
                    /\ ghost' = [GhostStep(ghost, ev, a.raised) EXCEPT
                                     !.prev = last.event]
          ELSE /\ task_pc' = AfterTurn(room, ev, "")
               /\ last' = [NoTurn EXCEPT !.event = ev]
               /\ UNCHANGED <<room, pending, ghost>>
    /\ UNCHANGED <<family, app, subscribed, eph_queue, engine>>

\* one turn of the loop, from the get() to the await of join()
ListenGet ==
    /\ task_pc = "get"
    /\ ffi_queue # <<>>
    /\ LET ev == NextEvent(ffi_queue) IN
       /\ ffi_queue' = Tail(ffi_queue)
       /\ IF ev.room_handle = room.ffi_handle[1]
          THEN IF ev.which = "eos"
               THEN /\ task_pc' = AfterTurn(room, ev, "")
                    /\ last' = [NoTurn EXCEPT !.event = ev]
                    /\ UNCHANGED <<room, pending, ghost>>
               ELSE \E k \in 0..NumListeners :
                    LET a == ApplyEvent(room, ev, k) IN
                    /\ k # 0 => OnRoomEvent(room, ev).emit # <<>>
                    /\ room' = a.room
                    /\ task_pc' = AfterTurn(room, ev, a.raised)
                    /\ pending' = RoomQueuePut(pending)
                    /\ last' = [event |-> ev, applied |-> TRUE, emit |-> a.emit,
                                raised |-> a.raised, republished |-> TRUE]
                    /\ ghost' = [GhostStep(ghost, ev, a.raised) EXCEPT
                                     !.prev = last.event]
          ELSE /\ task_pc' = AfterTurn(room, ev, "")
               /\ pending' = RoomQueuePut(pending)
               /\ last' = [NoTurn EXCEPT !.event = ev, !.republished = TRUE]
               /\ UNCHANGED <<room, ghost>>
    /\ UNCHANGED <<family, app, subscribed, eph_queue, engine>>

\* mutant of ListenJoin: the loop goes on without awaiting join()
ListenJoinNoWait ==
    /\ task_pc = "join"
    /\ task_pc' = "get"
    /\ UNCHANGED <<family, room, app, subscribed, ffi_queue, eph_queue, pending,
                   engine, last, ghost>>

\* await self._room_queue.join() returns: every subscriber has acknowledged
ListenJoin ==
    /\ task_pc = "join"
    /\ \A s \in DOMAIN pending : pending[s] = 0
    /\ task_pc' = "get"
    /\ UNCHANGED <<family, room, app, subscribed, ffi_queue, eph_queue, pending,
                   engine, last, ghost>>

\* a secondary subscriber takes an item and calls task_done()
SecondaryAck(s) ==
    /\ s \in DOMAIN pending
    /\ pending[s] > 0
    /\ pending' = [pending EXCEPT ![s] = @ - 1]
    /\ UNCHANGED <<family, room, app, subscribed, ffi_queue, eph_queue, task_pc,
                   engine, last, ghost>>

(***************************************************************************)
(* The native engine: it answers each request with a callback carrying the *)
(* request's async id, and streams room events on the shared channel.      *)
(***************************************************************************)
Stamp(ev) == [ev EXCEPT !.serial = engine.serial + 1]

BoundaryConnectCallback ==
    /\ engine.phase = "requested"
    /\ \E err \in ConnectErrors \cup {""}, sid \in CallbackSids(family), roster \in Rosters :
         /\ err # "" => (sid = "" /\ roster = {})
         /\ Broadcast(Stamp([ConnectCallback(engine.connect_async, err, sid, roster)
                                EXCEPT !.handle = IF err = ""
                                                  THEN SessionHandle(engine.sessions + 1)
                                                  ELSE 0]))
         /\ engine' = [engine EXCEPT !.phase = IF err = "" THEN "live" ELSE "refused",
                                     !.serial = @ + 1, !.error = err,
                                     !.sessions = IF err = "" THEN @ + 1 ELSE @,
                                     !.handle = IF err = ""
                                                THEN SessionHandle(engine.sessions + 1)
                                                ELSE @,
                                     !.eos = IF err = "" THEN FALSE ELSE @]
    /\ UNCHANGED <<family, room, app, subscribed, task_pc, pending, last, ghost>>

BoundaryDisconnectCallback ==
    /\ engine.disconnect_async # 0
    /\ Broadcast(Stamp(DisconnectCallback(engine.disconnect_async)))
    /\ engine' = [engine EXCEPT !.disconnect_async = 0, !.serial = @ + 1]
    /\ UNCHANGED <<family, room, app, subscribed, task_pc, pending, last, ghost>>

\* a room event of this session
BoundaryEmit ==
    /\ engine.phase = "live"
    /\ ~engine.eos
    /\ engine.nevents < MaxEvents
    /\ \E ev \in FamilyEvents(family) :
         Broadcast(Stamp([ev EXCEPT !.room_handle = engine.handle]))
    /\ engine' = [engine EXCEPT !.serial = @ + 1, !.nevents = @ + 1]
    /\ UNCHANGED <<family, room, app, subscribed, task_pc, pending, last, ghost>>

\* a room event of the other session on the shared channel
BoundaryEmitOther ==
    /\ engine.nevents < MaxEvents
    /\ subscribed # {}
    /\ \E ev \in OtherSessionEvents : Broadcast(Stamp(ev))
    /\ engine' = [engine EXCEPT !.serial = @ + 1, !.nevents = @ + 1]
    /\ UNCHANGED <<family, room, app, subscribed, task_pc, pending, last, ghost>>

\* this session's end-of-stream: its last room event
BoundaryEos ==
    /\ engine.phase = "live"
    /\ ~engine.eos
    /\ Broadcast(Stamp(RoomEvent(engine.handle, "eos")))
    /\ engine' = [engine EXCEPT !.serial = @ + 1, !.eos = TRUE]
    /\ UNCHANGED <<family, room, app, subscribed, task_pc, pending, last, ghost>>

\* connect() and the engine's answer to it
Connecting ==
    \/ ConnectSubscribe
    \/ ConnectSubscribeEphemeral
    \/ ConnectRequest
    \/ ConnectWaitFor
    \/ BoundaryConnectCallback

Next ==
    \/ Connecting
    \/ DisconnectNoop
    \/ DisconnectSubscribe
    \/ DisconnectRequest
    \/ DisconnectWaitFor
    \/ DisconnectAwaitTask
    \/ ListenGet
    \/ ListenJoin
    \/ \E s \in Secondaries : SecondaryAck(s)
    \/ BoundaryDisconnectCallback
    \/ BoundaryEmit
    \/ BoundaryEmitOther
    \/ BoundaryEos

\* the whole life cycle of a session, on the lifecycle family of events
Spec == Init /\ [][Next]_vars

\* the event loop runs every task that can run: disconnect() and the dispatch
\* loop go on when what they await is there
FairTasks ==
    /\ WF_vars(DisconnectRequest)
    /\ WF_vars(DisconnectWaitFor)
    /\ WF_vars(DisconnectAwaitTask)
    /\ WF_vars(ListenGet)
    /\ WF_vars(ListenJoin)

\* the boundary delivers the disconnect callback and the end-of-stream, and
\* every secondary subscriber acknowledges what it was handed
FairBoundary ==
    /\ WF_vars(BoundaryDisconnectCallback)
    /\ WF_vars(BoundaryEos)
    /\ \A s \in Secondaries : WF_vars(SecondaryAck(s))

\* the life cycle under fair scheduling and a boundary that delivers
SpecFair == Init /\ [][Next]_vars /\ FairTasks /\ FairBoundary

NextEvents ==
    \/ Connecting
    \/ SidRead
    \/ SidResume
    \/ PublishTrack
    \/ ListenGet
    \/ ListenJoin
    \/ BoundaryEmit
    \/ BoundaryEos

\* a session that stays connected, on each of the other families of events
SpecEvents == InitEvents /\ [][NextEvents]_vars

NextCalls ==
    \/ Connecting
    \/ DisconnectNoop
    \/ DisconnectSubscribe
    \/ DisconnectRequest
    \/ DisconnectWaitFor
    \/ DisconnectAwaitTask
    \/ ListenGet
    \/ ListenJoin
    \/ BoundaryDisconnectCallback
    \/ BoundaryEmit
    \/ BoundaryEos

\* repeated connect() and disconnect() calls on one Room.  A task that a later
\* connect() leaves running beside the one it creates is counted in
\* app.orphans; its further turns are not explored.
SpecCalls == InitCalls /\ [][NextCalls]_vars

(***************************************************************************)
(* Properties.                                                             *)
(***************************************************************************)
\* the step is a turn of the dispatch loop: it took an event from the queue
Turn == last' # last

\* the event is one of this session's, and not its end-of-stream
OwnEvent(ev) == ev.room_handle = RoomHandle /\ ev.which # "eos"

\* the queue q holds its events in the order the engine emitted them
InEmissionOrder(q) == \A i, j \in 1..Len(q) : i < j => q[i].serial < q[j].serial

\* C1: the loop takes the events in the order the boundary enqueued them (each
\* turn takes the oldest queued event, newer than every event taken before),
\* and one event's mirror mutation and notification of every listener are
\* over before the next is taken: a turn starts only from the get(), the
\* mirrors change in a turn alone, and an emit() that no listener cut short
\* has called every listener when the turn ends.
C1_EventOrdering ==
    [][/\ InEmissionOrder(ffi_queue')
       /\ Turn =>
            /\ task_pc = "get"
            /\ \E i \in 1..Len(ffi_queue) : ffi_queue[i] = last'.event
            /\ \A i \in 1..Len(ffi_queue) : last'.event.serial <= ffi_queue[i].serial
            /\ last'.event.serial > last.event.serial
            /\ Len(ffi_queue') = Len(ffi_queue) - 1
            /\ (last'.emit # None /\ last'.raised = "")
                 => last'.emit[1].notified = NumListeners
       /\ (room' # room /\ task_pc # "none") => Turn]_vars

\* C1 witness: a second event of the session was applied and notified to every
\* listener after a first one created the mirror of p1, and a third one waits
C1_Witness ==
    /\ task_pc = "join"
    /\ last.applied
    /\ last.emit # None
    /\ last.emit[1].notified = NumListeners
    /\ "p1" \in DOMAIN room.remote_participants
    /\ room.remote_participants["p1"].obj > room.local_participant[1].obj
    /\ last.event.serial > room.remote_participants["p1"].obj
    /\ ffi_queue # <<>>

\* C2: while a secondary subscriber has not acknowledged the republished
\* event, the loop takes no event from the persistent subscription: no turn,
\* no mirror mutation, no notification; and no subscriber ever holds more than
\* that one event.
C2_BackPressure ==
    [][/\ \A s \in DOMAIN pending : pending'[s] <= 1
       /\ (\E s \in DOMAIN pending : pending[s] > 0)
            => /\ ~Turn
               /\ room' = room
               /\ Len(ffi_queue') >= Len(ffi_queue)]_vars

\* C2 witness: the subscriber holds the republished event unacknowledged, the
\* loop waits in join() and the next event is queued
C2_Witness ==
    /\ task_pc = "join"
    /\ \E s \in DOMAIN pending : pending[s] > 0
    /\ last.republished
    /\ \E i \in 1..Len(ffi_queue) : OwnEvent(ffi_queue[i])

\* C3: a turn ends the loop if and only if the event taken is this session's
\* end-of-stream; every other event of this session is applied, whatever
\* errors earlier turns ended with, and a turn that ends with an error leaves
\* the loop waiting for the next event.
C3_ErrorsDoNotStopLoop ==
    [][Turn =>
         /\ task_pc' = "done" <=> (last'.event.room_handle = RoomHandle
                                   /\ last'.event.which = "eos")
         /\ OwnEvent(last'.event) => last'.applied
         /\ last'.raised # "" => (task_pc' = "join" /\ ghost'.errors = ghost.errors + 1)
         /\ OwnEvent(Head(ffi_queue)) => last'.event = Head(ffi_queue)]_vars

\* C3 witness: after a turn that ended with an error, a later event of the
\* session was applied and notified without error
C3_Witness ==
    /\ ghost.errors > 0
    /\ last.applied
    /\ last.raised = ""
    /\ last.emit # None

\* disconnect() has returned
Returned(a) == a.pc = "idle" /\ a.last \in {"disconnected", "disconnect_noop"}

\* disconnect() has returned from a call that found isconnected() true
ReturnedConnected(a) == a.pc = "idle" /\ a.last = "disconnected"

\* C4 as stated: whenever disconnect() has returned on a session whose connect()
\* succeeded, the correlated response has been observed, the loop has ended,
\* the persistent subscription is removed and no event is processed any more.
C4_Original ==
    [][/\ (Returned(app') /\ ~IsNone(room'.ffi_handle))
            => /\ app'.observed = app'.async_id
               /\ engine'.disconnect_async = 0
               /\ task_pc' = "done"
               /\ "ffi" \notin subscribed'
       /\ (Returned(app) /\ ~IsNone(room.ffi_handle))
            => (room' = room /\ last' = last)]_vars

\* C4 amended: the same for every call that found the session connected
\* (isconnected() true: connection_state not Disconnected at the call).
C4_DisconnectReturns ==
    [][/\ ReturnedConnected(app')
            => /\ app'.observed = app'.async_id
               /\ engine'.disconnect_async = 0
               /\ task_pc' = "done"
               /\ "ffi" \notin subscribed'
       /\ ReturnedConnected(app) => (room' = room /\ last' = last)]_vars

\* C4 witness: disconnect() has returned after events of the session were applied
C4_Witness ==
    /\ ReturnedConnected(app)
    /\ "p1" \in DOMAIN room.remote_participants
    /\ room.remote_participants["p1"].obj > room.local_participant[1].obj

\* C5: once connect() has failed on a callback with an error string, the
\* ConnectError carries that string, no subscription is left on the bus and
\* the Room is as constructed: no handle, Disconnected, no participants, no
\* dispatch loop.
C5_ConnectError ==
    (engine.phase = "refused" /\ app.pc = "idle") =>
        /\ app.error = engine.error
        /\ app.error \in ConnectErrors
        /\ app.observed = engine.connect_async
        /\ subscribed = {}
        /\ room = NewRoom
        /\ task_pc = "none"

\* C5 witness: connect() has raised ConnectError("invalid token")
C5_Witness ==
    /\ app.pc = "idle"
    /\ app.last = "ConnectError"
    /\ app.error = "invalid token"

\* the loop's turn in this step applied an event of kind which
TurnOn(which) == Turn /\ last'.applied /\ last'.event.which = which

\* the publication the event ev names, on the participant mirror P
PublicationOf(P, ev) == P.track_publications[ev.sid]

\* the event ev names a remote participant of R and one of its publications
KnownRemotePublication(R, ev) ==
    /\ ev.identity \in DOMAIN R.remote_participants
    /\ ev.sid \in DOMAIN R.remote_participants[ev.identity].track_publications

\* C6: after a successful connect the identities in remote_participants are
\* those obtained by replaying the participant_connected and
\* participant_disconnected events applied so far from the initial roster, and
\* a participant_disconnected for a mirrored identity removes the mirror and
\* makes the participant_disconnected notification with the mirror removed.
C6_ParticipantSetIsReplay ==
    [][/\ task_pc' # "none" => DOMAIN room'.remote_participants = ghost'.replay
       /\ (/\ TurnOn("participant_disconnected")
           /\ last'.event.identity \in DOMAIN room.remote_participants)
            => /\ last'.event.identity \notin DOMAIN room'.remote_participants
               /\ last'.emit # None
               /\ last'.emit[1].type = "participant_disconnected"
               /\ last'.emit[1].args =
                      <<room.remote_participants[last'.event.identity]>>]_vars

\* C6 witness: p2 has connected and p1, a participant of the initial roster,
\* has disconnected and was notified with its mirror
C6_Witness ==
    /\ last.event.which = "participant_disconnected"
    /\ last.emit # None
    /\ last.emit[1].args[1].identity = "p1"
    /\ last.emit[1].args[1].obj = room.local_participant[1].obj
    /\ DOMAIN room.remote_participants = {"p2"}
    /\ ghost.replay = {"p2"}

\* C7 as stated: when a track_unsubscribed is applied right after a
\* track_subscribed for the same publication of a known remote participant,
\* the publication is left with subscribed false and no track, and the
\* track_unsubscribed notification carries the track the publication held,
\* which is never none.
C7_Original ==
    [][(/\ TurnOn("track_unsubscribed")
        /\ last.applied
        /\ last.event.which = "track_subscribed"
        /\ last.event.identity = last'.event.identity
        /\ last.event.sid = last'.event.sid
        /\ KnownRemotePublication(room, last'.event))
         => LET before == PublicationOf(room.remote_participants[last'.event.identity],
                                        last'.event)
                after == PublicationOf(room'.remote_participants[last'.event.identity],
                                       last'.event)
            IN  /\ ~after.subscribed
                /\ after.track = None
                /\ last'.emit # None
                /\ last'.emit[1].type = "track_unsubscribed"
                /\ last'.emit[1].args[1] = before.track
                /\ last'.emit[1].args[1] # None]_vars

\* C8: a track_muted (track_unmuted) applied to a known publication leaves the
\* publication's mute flag, and the flag of the track attached to it, true
\* (false) and makes its notification; when the turn before applied the same
\* kind of event to the same publication, the publication is left as it was.
C8_MuteIdempotent ==
    [][\A w \in {"track_muted", "track_unmuted"} :
         (/\ TurnOn(w)
          /\ KnownRemotePublication(room, last'.event))
           => LET before == PublicationOf(room.remote_participants[last'.event.identity],
                                          last'.event)
                  after == PublicationOf(room'.remote_participants[last'.event.identity],
                                         last'.event)
              IN  /\ after.muted = (w = "track_muted")
                  /\ IsNone(after.track) = IsNone(before.track)
                  /\ ~IsNone(after.track) => after.track[1].muted = (w = "track_muted")
                  /\ last'.emit # None
                  /\ last'.emit[1].type = w
                  /\ last'.emit[1].args[2] = after
                  /\ (/\ last.applied
                      /\ last.event.which = w
                      /\ last.raised \in {"", "listener error"}
                      /\ last.event.identity = last'.event.identity
                      /\ last.event.sid = last'.event.sid)
                       => /\ after = before
                          /\ last.emit # None
                          /\ last.emit[1].type = w]_vars

\* C8 witness: track_muted was applied twice in a row to the publication t1 of
\* p1, which holds a track; both flags are set and the second was notified
C8_Witness ==
    /\ ghost.prev.which = "track_muted"
    /\ last.event.which = "track_muted"
    /\ last.emit # None
    /\ last.emit[1].type = "track_muted"
    /\ KnownRemotePublication(room, last.event)
    /\ LET pub == PublicationOf(room.remote_participants["p1"], last.event)
       IN  /\ pub.muted
           /\ ~IsNone(pub.track)
           /\ pub.track[1].muted

\* C9 as stated: every room_sid_changed ends without error and without a
\* notification and stores its sid; from the first one on the first-sid future
\* is resolved with the first event's sid, and a future that is resolved is
\* never resolved again.
C9_Original ==
    [][/\ TurnOn("room_sid_changed")
            => /\ last'.raised = ""
               /\ last'.emit = None
               /\ room'.info.sid = last'.event.sid
               /\ room'.first_sid_future = Some(ghost'.first_sid)
       /\ ~IsNone(room.first_sid_future)
            => room'.first_sid_future = room.first_sid_future]_vars

\* C10: after a participant_attributes_changed for a known participant, with
\* full map F and changed subset C, the participant's stored attributes are
\* exactly F, whatever they were before, and the notification carries exactly
\* C together with the participant.
C10_AttributesReplaced ==
    [][(/\ TurnOn("participant_attributes_changed")
        /\ ~IsNone(RetrieveParticipant(room, last'.event.identity)))
         => LET after == RetrieveParticipant(room', last'.event.identity)
            IN  /\ ~IsNone(after)
                /\ after[1].attributes = last'.event.attributes
                /\ last'.emit # None
                /\ last'.emit[1].type = "participant_attributes_changed"
                /\ last'.emit[1].args = <<last'.event.changed, after[1]>>]_vars

\* C10 witness: p1 held {a: 1, b: 2}; an event with full map {b: 3} and changed
\* subset {b: 2} left it with {b: 3} alone and was notified with {b: 2}
C10_Witness ==
    /\ ghost.prev.which = "participant_attributes_changed"
    /\ ghost.prev.identity = "p1"
    /\ ghost.prev.attributes = {<<"a", "1">>, <<"b", "2">>}
    /\ last.event.which = "participant_attributes_changed"
    /\ last.event.identity = "p1"
    /\ last.event.attributes = {<<"b", "3">>}
    /\ last.event.changed = {<<"b", "2">>}
    /\ "p1" \in DOMAIN room.remote_participants
    /\ room.remote_participants["p1"].attributes = {<<"b", "3">>}
    /\ last.emit # None
    /\ last.emit[1].args[1] = {<<"b", "2">>}

\* the state machine of the session: the edges a connection state may move along
StateEdges ==
    {<<CONN_DISCONNECTED, "CONN_CONNECTING">>, <<"CONN_CONNECTING", CONN_CONNECTED>>,
     <<CONN_CONNECTED, CONN_RECONNECTING>>, <<CONN_RECONNECTING, CONN_CONNECTED>>,
     <<"CONN_CONNECTING", CONN_DISCONNECTED>>, <<CONN_CONNECTED, CONN_DISCONNECTED>>,
     <<CONN_RECONNECTING, CONN_DISCONNECTED>>}

\* C11 as stated: connection_state changes along the edges of the state machine
\* alone, and Disconnected, once reached after a connection, is never left.
C11_Original ==
    [][room'.connection_state # room.connection_state
         => /\ <<room.connection_state, room'.connection_state>> \in StateEdges
            /\ ~(room.connection_state = CONN_DISCONNECTED /\ ~IsNone(room.ffi_handle))]_vars

\* C12: a turn of the loop on an event whose room handle is not this session's
\* (an event of another session, its end-of-stream included) changes no field
\* of the Room, applies nothing, notifies nobody, leaves the loop running and
\* leaves the other queued events in the order they had.
C12_OtherSessionIgnored ==
    [][(Turn /\ ~IsNone(room.ffi_handle) /\ last'.event.room_handle # room.ffi_handle[1])
         => /\ room' = room
            /\ ~last'.applied
            /\ last'.emit = None
            /\ last'.raised = ""
            /\ task_pc' = "join"
            /\ ghost' = ghost
            /\ ffi_queue' = Tail(ffi_queue)]_vars

\* C12 witness: the loop has taken the end-of-stream of the other session and
\* goes on, with an event of this session still queued behind it
C12_Witness ==
    /\ last.event.room_handle = OtherHandle
    /\ last.event.which = "eos"
    /\ task_pc = "join"
    /\ \E i \in 1..Len(ffi_queue) : OwnEvent(ffi_queue[i])

\* C13: the turn that takes this session's end-of-stream ends the loop without
\* applying the event, without a notification and without republishing it; a
\* loop that has ended takes no event any more, whatever is queued.
C13_EosTerminates ==
    [][/\ (Turn /\ last'.event.room_handle = RoomHandle /\ last'.event.which = "eos")
            => /\ task_pc' = "done"
               /\ ~last'.applied
               /\ last'.emit = None
               /\ ~last'.republished
               /\ room' = room
               /\ pending' = pending
       /\ task_pc = "done"
            => /\ ~Turn
               /\ task_pc' = "done"
               /\ room' = room
               /\ Len(ffi_queue') >= Len(ffi_queue)]_vars

\* C13 witness: the loop has ended on the end-of-stream and an event enqueued
\* after it stays on the persistent subscription
C13_Witness ==
    /\ task_pc = "done"
    /\ last.event.which = "eos"
    /\ ffi_queue # <<>>
    /\ \A i \in 1..Len(ffi_queue) : ffi_queue[i].serial > last.event.serial

\* the step in which connect() creates the dispatch loop's task
LoopStart == task_pc = "none" /\ task_pc' = "get"

\* the callback the correlation wait of connect() is about to return
AwaitedCallback == eph_queue[First(ConnectMatches(eph_queue, app.async_id))]

\* C14: when connect() starts the dispatch loop, the local participant mirror
\* and the mirrors of the whole initial roster (a participant per entry, an
\* unsubscribed publication per listed publication sid) are in place and no
\* event has been applied; the loop takes events only once started, so every
\* event, also one enqueued while connect() awaited its response, is applied
\* to a Room that holds them.
C14_RosterBeforeEvents ==
    [][/\ LoopStart
            => /\ ~IsNone(room'.local_participant)
               /\ room'.local_participant[1].identity = LocalIdentity
               /\ DOMAIN room'.remote_participants = {pt[1] : pt \in AwaitedCallback.roster}
               /\ \A pt \in AwaitedCallback.roster :
                    LET pubs == room'.remote_participants[pt[1]].track_publications
                    IN  /\ DOMAIN pubs = pt[2]
                        /\ \A sid \in pt[2] : /\ pubs[sid].sid = sid
                                              /\ ~pubs[sid].subscribed
                                              /\ IsNone(pubs[sid].track)
               /\ last' = NoTurn
       /\ task_pc = "none" => ~Turn
       /\ Turn => (task_pc = "get" /\ ~IsNone(room.local_participant))]_vars

\* C14 witness: the loop has just started on a Room that holds the local
\* participant and the roster {p1: t1}, and an event of the session enqueued
\* while connect() awaited its response is next after the callback
C14_Witness ==
    /\ task_pc = "get"
    /\ last = NoTurn
    /\ Len(ffi_queue) >= 2
    /\ ffi_queue[1].msg = "connect"
    /\ OwnEvent(ffi_queue[2])
    /\ ~IsNone(room.local_participant)
    /\ "p1" \in DOMAIN room.remote_participants
    /\ DOMAIN room.remote_participants["p1"].track_publications = {"t1"}

\* C15: the connect request is issued with both subscriptions in place; the
\* correlation wait returns on the connect callback that carries the async id
\* acknowledged for the request and on no other event; and when the loop
\* starts, every event the engine has emitted is on the persistent
\* subscription, in emission order.
C15_SubscribeBeforeRequest ==
    [][/\ engine'.connect_async # engine.connect_async
            => {"ffi", "eph"} \subseteq subscribed
       /\ (app.pc = "c_wait" /\ app'.pc = "idle")
            => /\ app'.observed = app.async_id
               /\ app'.observed = engine.connect_async
               /\ AwaitedCallback.msg = "connect"
               /\ \A i \in 1..Len(eph_queue) :
                    eph_queue[i].serial < AwaitedCallback.serial
                        => eph_queue[i].msg # "connect"
       /\ LoopStart
            => /\ Len(ffi_queue') = engine'.serial
               /\ \A i \in 1..Len(ffi_queue') : ffi_queue'[i].serial = i]_vars

\* C15 witness: the loop starts with an event of the other session, the
\* connect callback that connect() observed and an event of this session on
\* the persistent subscription, in that order
C15_Witness ==
    /\ task_pc = "get"
    /\ last = NoTurn
    /\ Len(ffi_queue) >= 3
    /\ ffi_queue[1].room_handle = OtherHandle
    /\ ffi_queue[2].msg = "connect"
    /\ app.observed = ffi_queue[2].async_id
    /\ OwnEvent(ffi_queue[3])

RECURSIVE ResolvedSpeakers(_, _)
\* the mirrors of the identities of ids that resolve in R, in the order of ids
ResolvedSpeakers(R, ids) ==
    IF ids = <<>> THEN <<>>
    ELSE LET participant == RetrieveParticipant(R, Head(ids))
         IN  (IF IsNone(participant) THEN <<>> ELSE <<participant[1]>>)
             \o ResolvedSpeakers(R, Tail(ids))

\* C17 as stated: every active_speakers_changed makes its notification, with
\* the mirrors of the listed identities that resolve, in the event's order,
\* the unresolved ones being skipped.
C17_Original ==
    [][TurnOn("active_speakers_changed")
         => /\ last'.emit # None
            /\ last'.emit[1].type = "active_speakers_changed"
            /\ last'.emit[1].args = <<ResolvedSpeakers(room, last'.event.identities)>>]_vars

\* C18 as stated: a stored sid that is non-empty never changes; a reader that
\* blocked on the sid is released once the sid is assigned, and what it
\* receives is the sid assigned.
C18_Original ==
    [][/\ room.info.sid # "" => room'.info.sid = room.info.sid
       /\ (app'.reader = "blocked" /\ room'.info.sid # "")
            => ~IsNone(room'.first_sid_future)
       /\ (app.reader = "blocked" /\ app'.reader = "returned")
            => (room.info.sid # "" /\ app'.sid_read = room.info.sid)]_vars

\* the session is already disconnected: it never connected (no handle, also
\* after a connect() that failed), or the last call of disconnect() returned
AlreadyDisconnected ==
    /\ app.pc = "idle"
    /\ \/ IsNone(room.ffi_handle)
       \/ app.last = "disconnected"

\* C16 as stated: a disconnect() on a session that is already disconnected
\* issues no request, opens no subscription, removes none and changes no state.
C16_Original ==
    [][AlreadyDisconnected
         => /\ app'.pc \in {"idle", "c_sub"}
            /\ engine'.disconnect_async = engine.disconnect_async
            /\ app'.pc = "idle" => UNCHANGED <<room, subscribed, task_pc, engine>>]_vars

\* the dispatch loop tasks that are running
RunningTasks == app.orphans + (IF task_pc \in {"get", "join"} THEN 1 ELSE 0)

\* C19 as stated: at most one dispatch loop task runs at any time, and while a
\* loop runs the fields of the Room change in its turns alone.
C19_Original ==
    [][/\ RunningTasks <= 1
       /\ (task_pc \in {"get", "join"} /\ room' # room) => Turn]_vars

\* disconnect() is running: it found the session connected and has not returned
Disconnecting == app.pc \in {"d_sub", "d_wait", "d_task"}

\* C20: the loop ends in a turn of its own, on the end-of-stream, and never
\* while disconnect() makes a step; disconnect() returns only when the engine
\* has delivered the disconnect callback and the end-of-stream and the loop has
\* ended, so without them it does not return; and under fair scheduling, with
\* a boundary that delivers both and subscribers that acknowledge, every
\* disconnect() that is running eventually returns.
C20_DisconnectWaitsForLoop ==
    /\ [][/\ (task_pc # "done" /\ task_pc' = "done")
               => (Turn /\ last'.event.which = "eos" /\ app' = app)
          /\ (Disconnecting /\ ~Disconnecting')
               => /\ ReturnedConnected(app')
                  /\ task_pc = "done"
                  /\ engine.eos
                  /\ engine.disconnect_async = 0
                  /\ app.observed = app.async_id]_vars
    /\ Disconnecting ~> ReturnedConnected(app)

\* C20 witness: disconnect() has returned after the loop ended on the
\* end-of-stream, with a secondary subscriber that acknowledged every event
C20_Witness ==
    /\ ReturnedConnected(app)
    /\ task_pc = "done"
    /\ last.event.which = "eos"
    /\ DOMAIN pending # {}
    /\ \A s \in DOMAIN pending : pending[s] = 0
    /\ "p1" \in DOMAIN room.remote_participants

\* the kinds of event that tolerate an identity without a mirror
TolerantKinds ==
    {"connection_quality_changed", "e2ee_state_changed", "transcription_received",
     "data_packet_received"}

\* the kinds of event that assume the identity has a mirror
StrictKinds ==
    {"track_published", "track_unpublished", "track_subscribed", "track_unsubscribed",
     "track_subscription_failed", "track_muted", "track_unmuted",
     "participant_metadata_changed", "participant_name_changed",
     "participant_attributes_changed"}

\* the participant argument of the notification a tolerant kind makes
NotifiedParticipant(call) ==
    CASE call.type \in {"connection_quality_changed", "e2ee_state_changed"} -> call.args[1]
      [] call.type = "transcription_received" -> call.args[2]
      [] call.type \in {"data_received", "sip_dtmf_received"} -> call.args[1].participant

\* C21: an event naming an identity that has no mirror, local or remote,
\* changes no mirror; if its kind is connection_quality_changed,
\* e2ee_state_changed, transcription_received or data_packet_received (user,
\* sip_dtmf) its notification is made with the participant none; if its kind is
\* one of the track and participant kinds that assume the mirror, the turn
\* ends with an error and no notification is made.
C21_LookupPolicy ==
    [][(/\ Turn
        /\ last'.applied
        /\ IsNone(RetrieveParticipant(room, last'.event.identity)))
         => /\ last'.event.which \in TolerantKinds
                 => /\ room' = room
                    /\ last'.emit # None
                    /\ IsNone(NotifiedParticipant(last'.emit[1]))
                    /\ last'.raised \in {"", "listener error"}
            /\ last'.event.which \in StrictKinds
                 => /\ room' = room
                    /\ last'.emit = None
                    /\ last'.raised \in {"KeyError", "AssertionError"}]_vars

\* C21 witness: participant_name_changed for p2, which has no mirror, ended
\* with an error, and the connection_quality_changed for p2 that followed was
\* notified with the participant none
C21_Witness ==
    /\ ghost.prev.which = "participant_name_changed"
    /\ ghost.prev.identity = "p2"
    /\ ghost.errors > 0
    /\ last.event.which = "connection_quality_changed"
    /\ last.event.identity = "p2"
    /\ "p2" \notin DOMAIN room.remote_participants
    /\ last.emit # None
    /\ last.emit[1].type = "connection_quality_changed"
    /\ IsNone(last.emit[1].args[1])

\* C22 as stated: every local_track_subscribed naming a publication of the
\* local participant makes the local_track_subscribed notification and leaves
\* the publication's first-subscription future resolved, the first time and
\* every later time.
C22_Original ==
    [][(/\ TurnOn("local_track_subscribed")
        /\ last'.event.sid \in DOMAIN LocalPublications(room))
         => /\ last'.emit # None
            /\ last'.emit[1].type = "local_track_subscribed"
            /\ ~IsNone(LocalPublications(room')[last'.event.sid].first_subscription)]_vars

\* C23: the publication sids of every mirrored remote participant are those
\* obtained by replaying the track_published and track_unpublished events
\* applied so far from its roster publications; track_published for a mirrored
\* participant adds the publication it notifies, and track_unpublished for one
\* of its publications removes it and notifies with the mirror removed.
C23_PublicationSetIsReplay ==
    [][/\ task_pc' # "none"
            => \A identity \in DOMAIN room'.remote_participants :
                 /\ identity \in DOMAIN ghost'.pubs
                 /\ DOMAIN room'.remote_participants[identity].track_publications
                      = ghost'.pubs[identity]
       /\ (/\ TurnOn("track_published")
           /\ last'.event.identity \in DOMAIN room.remote_participants)
            => LET rp == room'.remote_participants[last'.event.identity]
               IN  /\ last'.event.sid \in DOMAIN rp.track_publications
                   /\ last'.emit # None
                   /\ last'.emit[1].type = "track_published"
                   /\ last'.emit[1].args = <<rp.track_publications[last'.event.sid], rp>>
       /\ (/\ TurnOn("track_unpublished")
           /\ KnownRemotePublication(room, last'.event))
            => LET before == room.remote_participants[last'.event.identity]
                   rp == room'.remote_participants[last'.event.identity]
               IN  /\ last'.event.sid \notin DOMAIN rp.track_publications
                   /\ last'.emit # None
                   /\ last'.emit[1].type = "track_unpublished"
                   /\ last'.emit[1].args = <<PublicationOf(before, last'.event), rp>>]_vars

\* C23 witness: t2 was published to p1 and then t1, a publication of its
\* roster, was unpublished and notified with its mirror; p1 holds t2 alone
C23_Witness ==
    /\ ghost.prev.which = "track_published"
    /\ ghost.prev.sid = "t2"
    /\ last.event.which = "track_unpublished"
    /\ last.event.sid = "t1"
    /\ last.emit # None
    /\ last.emit[1].args[1].sid = "t1"
    /\ last.emit[1].args[1].obj = room.local_participant[1].obj
    /\ "p1" \in DOMAIN room.remote_participants
    /\ DOMAIN room.remote_participants["p1"].track_publications = {"t2"}
    /\ ghost.pubs["p1"] = {"t2"}

\* C24 as stated: every remote publication is subscribed if and only if a track
\* is attached to it.
C24_Original ==
    \A identity \in DOMAIN room.remote_participants :
        \A sid \in DOMAIN room.remote_participants[identity].track_publications :
            LET pub == room.remote_participants[identity].track_publications[sid]
            IN  pub.subscribed <=> ~IsNone(pub.track)

\* the event is this session's end-of-stream
OwnEos(ev) == ev.room_handle = RoomHandle /\ ev.which = "eos"

\* C25: every event the loop takes, except this session's end-of-stream, is
\* republished to the secondary broadcast exactly once and in the order taken:
\* the turn that takes it starts with nothing unacknowledged and gives every
\* secondary subscriber exactly one more item, whether the event is of this
\* session or of another and whether or not its application raised; the turn
\* on this session's end-of-stream gives nothing, and no other step of the
\* program adds an item.
C25_RepublishedOnce ==
    [][/\ Turn =>
            /\ \A s \in DOMAIN pending : pending[s] = 0
            /\ last'.republished <=> ~OwnEos(last'.event)
            /\ DOMAIN pending' = DOMAIN pending
            /\ \A s \in DOMAIN pending :
                 pending'[s] = IF OwnEos(last'.event) THEN 0 ELSE 1
       /\ ~Turn => \A s \in DOMAIN pending : pending'[s] <= pending[s]]_vars

\* C25 witness: the turn on an event of this session whose application raised
\* gave the secondary subscriber its one item
C25_Witness ==
    /\ OwnEvent(last.event)
    /\ last.applied
    /\ last.raised # ""
    /\ last.republished
    /\ DOMAIN pending # {}
    /\ \A s \in DOMAIN pending : pending[s] = 1

\* the step is the loop's turn on an event of this session named which
OwnTurnOn(which) == Turn /\ OwnEvent(last'.event) /\ last'.event.which = which

\* C26: a participant_connected whose identity is already in remote_participants
\* leaves the map unchanged (the existing mirror and its publications are kept)
\* and emits no notification: the turn ends with "participant already exists";
\* a participant_disconnected for an identity that is not in the map leaves the
\* map unchanged and emits no notification: the turn ends with KeyError.
C26_DuplicateAndUnknownIgnored ==
    [][/\ (/\ OwnTurnOn("participant_connected")
           /\ last'.event.identity \in DOMAIN room.remote_participants)
            => /\ room'.remote_participants = room.remote_participants
               /\ room' = room
               /\ last'.emit = None
               /\ last'.raised = "participant already exists"
       /\ (/\ OwnTurnOn("participant_disconnected")
           /\ last'.event.identity \notin DOMAIN room.remote_participants)
            => /\ room'.remote_participants = room.remote_participants
               /\ room' = room
               /\ last'.emit = None
               /\ last'.raised = "KeyError"]_vars

\* C26 witness: a participant_connected for p1, already mirrored with its
\* publication t1 since the connect, ended with the exception, and the mirror
\* of p1 is still the one created before the event, with its publication
C26_Witness ==
    /\ last.applied
    /\ last.event.which = "participant_connected"
    /\ last.event.identity = "p1"
    /\ last.raised = "participant already exists"
    /\ last.emit = None
    /\ "p1" \in DOMAIN room.remote_participants
    /\ room.remote_participants["p1"].obj # last.event.serial
    /\ DOMAIN room.remote_participants["p1"].track_publications = {"t1"}

====
